---- MODULE Spec2Model ----
(***************************************************************************)
(* ObjectSampler (jfr/leakprofiler/sampling/objectSampler.cpp): the        *)
(* byte-weighted reservoir of allocation samples, its try-lock guarded     *)
(* add(), the GC-driven oops_do() and the scavenge()/remove_dead() pass.   *)
(* SampleList, SamplePriorityQueue and JfrTryLock are collaborators whose  *)
(* sources are not part of the file; they are modelled from their          *)
(* documented contracts.                                                   *)
(***************************************************************************)
EXTENDS Integers, Sequences, FiniteSets, TLC

\* ---------------------------------------------------------------- bounds
MaxSize    == 3      \* largest `size` handed to the constructor
NumThreads == 2      \* allocating JavaThreads
MaxTotal   == 5      \* add() is not called once _total_allocated would pass this
MaxClock   == 1      \* largest value Tracing::time() returns
Sizes      == {1, 2, 4}  \* the `allocated` arguments add() is called with

NULL    == 0
Threads == 1 .. NumThreads
Slots   == 1 .. MaxSize

VARIABLES
  size,             \* _size
  samples,          \* the ObjectSample slots owned by _list: slot -> fields
  list,             \* _list in-use list, from last() (newest) along next()
  free_list,        \* _list free list
  items,            \* _priority_queue: the samples it contains
  pq_total,         \* _priority_queue->total()
  total_allocated,  \* _total_allocated
  dead_samples,     \* _dead_samples
  tryLock,          \* _tryLock
  last_sweep,       \* _last_sweep
  fault,            \* contract violations of the collaborators hit so far
  pc,               \* per thread: "idle", or "locked" inside add() past line 81
  arg,              \* per thread: the (obj, allocated) of the add() in progress
  last              \* the operation step that produced the current state

vars == << size, samples, list, free_list, items, pq_total, total_allocated,
           dead_samples, tryLock, last_sweep, fault, pc, arg, last >>

\* ------------------------------------------------------------ ObjectSample
EmptySample == [span |-> 0, allocated |-> 0, object |-> NULL, dead |-> FALSE]

NoArg == [obj |-> NULL, allocated |-> 0]

\* ------------------------------------------------------------- SampleList
IndexOf(seq, x) == CHOOSE i \in 1 .. Len(seq) : seq[i] = x

Without(seq, x) == SelectSeq(seq, LAMBDA y : y # x)

InList(seq, x) == \E i \in 1 .. Len(seq) : seq[i] = x

\* ObjectSample::next(): the neighbour further from last()
next_of(seq, s) ==
  IF IndexOf(seq, s) = Len(seq) THEN NULL ELSE seq[IndexOf(seq, s) + 1]

\* ObjectSample::prev(): the neighbour nearer to last()
prev_of(seq, s) ==
  IF IndexOf(seq, s) = 1 THEN NULL ELSE seq[IndexOf(seq, s) - 1]

\* SampleList::last()
list_last(seq) == IF seq = << >> THEN NULL ELSE Head(seq)

\* The sampler's containers as one value st:
\*   [samples, list, free_list, items, pq_total, fault]

\* the slot SampleList::get() hands out: the head of the free list
free_head(fl) == CHOOSE s \in fl : \A o \in fl : s <= o

\* SampleList::get(): a free slot moves to the head of the in-use list
list_get(st) ==
  IF st.free_list = {}
  THEN [st EXCEPT !.fault = @ \cup {"pool_exhausted"}]
  ELSE [st EXCEPT !.list = << free_head(st.free_list) >> \o @,
                  !.free_list = @ \ {free_head(st.free_list)},
                  !.samples[free_head(st.free_list)] = EmptySample]

\* SampleList::reuse(s): s is unlinked and relinked at the head
list_reuse(st, s) ==
  [st EXCEPT !.list = << s >> \o Without(@, s),
             !.samples[s] = EmptySample]

\* SampleList::release(s): s is unlinked and returned to the free list
list_release(st, s) ==
  [st EXCEPT !.list = Without(@, s),
             !.free_list = @ \cup {s},
             !.samples[s] = EmptySample]

\* ---------------------------------------------------- SamplePriorityQueue
\* SamplePriorityQueue::push(s)
pq_push(st, s) ==
  [st EXCEPT !.items = @ \cup {s},
             !.pq_total = @ + st.samples[s].span]

\* SamplePriorityQueue::remove(s)
pq_remove(st, s) ==
  IF s \notin st.items
  THEN [st EXCEPT !.fault = @ \cup {"remove_absent"}]
  ELSE [st EXCEPT !.items = @ \ {s},
                  !.pq_total = @ - st.samples[s].span]

\* SamplePriorityQueue::count()
pq_count(st) == Cardinality(st.items)

\* the candidates of SamplePriorityQueue::peek() / pop(): a minimum-span item
pq_min(st) ==
  {s \in st.items : \A o \in st.items : st.samples[s].span <= st.samples[o].span}

\* ObjectSample::add_span
add_span(st, s, n) == [st EXCEPT !.samples[s].span = @ + n]

\* ----------------------------------------------------------- ObjectSampler
\* remove_dead that leaves the dead sample in the priority queue
remove_dead_keeps_item(st, sample) ==
  LET previous == prev_of(st.list, sample)
      folded   == IF previous # NULL
                  THEN pq_push(add_span(pq_remove(st, previous), previous,
                                        st.samples[sample].span),
                               previous)
                  ELSE st
  IN list_release(folded, sample)

\* remove_dead that adds the span to previous while it stays in the queue
remove_dead_no_repush(st, sample) ==
  LET previous == prev_of(st.list, sample)
      folded   == IF previous # NULL
                  THEN add_span(st, previous, st.samples[sample].span)
                  ELSE st
  IN list_release(pq_remove(folded, sample), sample)

\* remove_dead that takes sample->next() for previous
remove_dead_onto_next(st, sample) ==
  LET previous == next_of(st.list, sample)
      folded   == IF previous # NULL
                  THEN pq_push(add_span(pq_remove(st, previous), previous,
                                        st.samples[sample].span),
                               previous)
                  ELSE st
  IN list_release(pq_remove(folded, sample), sample)

\* remove_dead without lines 155-159: the span is not pushed on to previous
remove_dead_drops_span(st, sample) ==
  list_release(pq_remove(st, sample), sample)

\* remove_dead without line 158: previous is not pushed back
remove_dead_no_push(st, sample) ==
  LET previous == prev_of(st.list, sample)
      folded   == IF previous # NULL
                  THEN add_span(pq_remove(st, previous), previous,
                                st.samples[sample].span)
                  ELSE st
  IN list_release(pq_remove(folded, sample), sample)

\* ObjectSampler::remove_dead
remove_dead(st, sample) ==
  LET previous == prev_of(st.list, sample)
      folded   == IF previous # NULL
                  THEN pq_push(add_span(pq_remove(st, previous), previous,
                                        st.samples[sample].span),
                               previous)
                  ELSE st
  IN list_release(pq_remove(folded, sample), sample)

\* the loop of scavenge reading current->next() after remove_dead(current):
\* the released sample has no next(), so the walk ends at the first dead one
RECURSIVE scavenge_from_stops(_, _)
scavenge_from_stops(st, current) ==
  IF current = NULL THEN st
  ELSE IF st.samples[current].dead
       THEN remove_dead(st, current)
       ELSE scavenge_from_stops(st, next_of(st.list, current))

\* the loop of ObjectSampler::scavenge from `current` on
RECURSIVE scavenge_from(_, _)
scavenge_from(st, current) ==
  IF current = NULL THEN st
  ELSE LET next == next_of(st.list, current)
       IN CHOOSE r \in { scavenge_from(after, next) :
                          after \in { IF st.samples[current].dead
                                      THEN remove_dead(st, current)
                                      ELSE st } } : TRUE

\* ObjectSampler::scavenge (the containers; _dead_samples is cleared by the caller's step)
scavenge(st) == scavenge_from(st, list_last(st.list))

\* ObjectSampler::oops_do: the samples after the walk, `alive` being the
\* objects is_alive answers true for
oops_mark(smp, seq, alive) ==
  [s \in Slots |->
     IF InList(seq, s) /\ ~smp[s].dead /\ smp[s].object \notin alive
     THEN [smp[s] EXCEPT !.dead = TRUE]
     ELSE smp[s]]

\* line 142 left out: the walk never sets _dead_samples
oops_marked_never(smp, seq, alive) == FALSE

\* line 142 moved out of the else branch: every walk sets _dead_samples
oops_marked_always(smp, seq, alive) == TRUE

\* did the walk of oops_do mark a sample
oops_marked(smp, seq, alive) ==
  \E s \in Slots : InList(seq, s) /\ ~smp[s].dead /\ smp[s].object \notin alive

\* line 88 left out: the running sum is not advanced
new_total_not_advanced(total, allocated) == total

\* line 88 with = for +=
new_total_assigns(total, allocated) == allocated

\* line 88: _total_allocated += allocated
new_total(total, allocated) == total + allocated

\* line 89: span = _total_allocated - _priority_queue->total()
candidate_span(total, st) == total - st.pq_total

\* line 91 comparing with _size + 1
is_full_off_by_one(st, sz) == pq_count(st) = sz + 1

\* line 91: (size_t)_priority_queue->count() == _size
is_full(st, sz) == pq_count(st) = sz

\* lines 93-94 with >= for >
quick_reject_on_equal(st, span) ==
  \E peek \in pq_min(st) : st.samples[peek].span >= span

\* lines 93-94: peek->span() > span
quick_reject(st, span) == \E peek \in pq_min(st) : st.samples[peek].span > span

\* lines 105-117 with the candidate span passed to set_span
populate_candidate_span(st, sample, obj, allocated) ==
  pq_push([st EXCEPT !.samples[sample].span = allocated + st.pq_total,
                     !.samples[sample].object = obj,
                     !.samples[sample].allocated = allocated],
          sample)

\* lines 105-117: the setters on the sample, then _priority_queue->push(sample)
populate(st, sample, obj, allocated) ==
  pq_push([st EXCEPT !.samples[sample].span = allocated,
                     !.samples[sample].object = obj,
                     !.samples[sample].allocated = allocated],
          sample)

\* what a scavenge() over st does with the spans of its dead samples:
\* "none" (no dead sample), "folded" (each one has a prev() when removed) or
\* "lost" (the sample at last() is dead and has no prev())
sweep_kind(st) ==
  IF \A i \in 1 .. Len(st.list) : ~st.samples[st.list[i]].dead THEN "none"
  ELSE IF st.samples[Head(st.list)].dead THEN "lost" ELSE "folded"

\* lines 83-118 with the pending sweep run last, after the push of line 117
add_locked_results_late_sweep(st, sz, ds, total, obj, allocated) ==
  LET sweep == IF ds THEN sweep_kind(st) ELSE "no"
      tot1  == new_total(total, allocated)
      span  == candidate_span(tot1, st)
      res(s, o) == [st |-> IF ds THEN scavenge(s) ELSE s,
                    total_allocated |-> tot1, dead_samples |-> FALSE,
                    outcome |-> o, sweep |-> sweep]
  IN IF is_full(st, sz)
     THEN IF quick_reject(st, span)
          THEN { res(st, "rejected") }
          ELSE { res(populate(list_reuse(pq_remove(st, victim), victim),
                              victim, obj, allocated), "evicted")
                 : victim \in pq_min(st) }
     ELSE IF st.free_list = {}
          THEN { res(list_get(st), "exhausted") }
          ELSE { res(populate(list_get(st), free_head(st.free_list), obj, allocated),
                     "fresh") }

\* lines 88-118 with line 88 moved below the quick reject of lines 93-97
add_admit_results_reject_uncounted(st1, sz, sweep, total, obj, allocated) ==
  LET tot1  == new_total(total, allocated)
      span  == candidate_span(tot1, st1)
      res(s, o) == [st |-> s,
                    total_allocated |-> IF o = "rejected" THEN total ELSE tot1,
                    dead_samples |-> FALSE, outcome |-> o, sweep |-> sweep]
  IN IF is_full(st1, sz)
     THEN IF quick_reject(st1, span)
          THEN { res(st1, "rejected") }
          ELSE { res(populate(list_reuse(pq_remove(st1, victim), victim),
                              victim, obj, allocated), "evicted")
                 : victim \in pq_min(st1) }
     ELSE IF st1.free_list = {}
          THEN { res(list_get(st1), "exhausted") }
          ELSE { res(populate(list_get(st1), free_head(st1.free_list), obj, allocated),
                     "fresh") }

\* lines 88-118 of ObjectSampler::add on the containers st1 left by lines
\* 83-86, `sweep` being what the pending sweep did: every result the call
\* can have, as [st, total_allocated, dead_samples, outcome, sweep]
add_admit_results(st1, sz, sweep, total, obj, allocated) ==
  LET tot1  == new_total(total, allocated)
      span  == candidate_span(tot1, st1)
      res(s, o) == [st |-> s, total_allocated |-> tot1, dead_samples |-> FALSE,
                    outcome |-> o, sweep |-> sweep]
  IN IF is_full(st1, sz)
     THEN IF quick_reject(st1, span)
          THEN { res(st1, "rejected") }
          ELSE { res(populate(list_reuse(pq_remove(st1, victim), victim),
                              victim, obj, allocated), "evicted")
                 : victim \in pq_min(st1) }
     ELSE IF st1.free_list = {}
          THEN { res(list_get(st1), "exhausted") }
          ELSE { res(populate(list_get(st1), free_head(st1.free_list), obj, allocated),
                     "fresh") }

\* lines 83-118 of ObjectSampler::add, run by the holder of the try-lock:
\* the pending sweep of lines 83-86 first, then lines 88-118 on what it leaves
add_locked_results(st, sz, ds, total, obj, allocated) ==
  UNION { add_admit_results(st1, sz, IF ds THEN sweep_kind(st) ELSE "no",
                            total, obj, allocated)
          : st1 \in { IF ds THEN scavenge(st) ELSE st } }

\* ------------------------------------------------------------------ state
Containers ==
  [samples |-> samples, list |-> list, free_list |-> free_list,
   items |-> items, pq_total |-> pq_total, fault |-> fault]

SetContainers(st) ==
  /\ samples'   = st.samples
  /\ list'      = st.list
  /\ free_list' = st.free_list
  /\ items'     = st.items
  /\ pq_total'  = st.pq_total
  /\ fault'     = st.fault

Step(op, outcome, sweep) == [op |-> op, outcome |-> outcome, sweep |-> sweep]

\* the objects the sampler or a call in progress refers to
UsedObjects ==
  {samples[list[i]].object : i \in 1 .. Len(list)} \cup {arg[t].obj : t \in Threads}

\* the object of the next allocation event: one nothing refers to yet
FreshObject == CHOOSE o \in 1 .. MaxSize + 2 :
                 /\ o \notin UsedObjects
                 /\ \A p \in 1 .. o - 1 : p \in UsedObjects

AllIdle == \A t \in Threads : pc[t] = "idle"

Init ==
  /\ size \in 1 .. MaxSize
  /\ samples = [s \in Slots |-> EmptySample]
  /\ list = << >>
  /\ free_list = 1 .. size
  /\ items = {}
  /\ pq_total = 0
  /\ total_allocated = 0
  /\ dead_samples = FALSE
  /\ tryLock = 0
  /\ last_sweep = 0
  /\ fault = {}
  /\ pc = [t \in Threads |-> "idle"]
  /\ arg = [t \in Threads |-> NoArg]
  /\ last = Step("init", "none", "no")

\* add() entry that runs the pending sweep before the identity check
add_enter_sweeps_first(t, obj, allocated, thread_id) ==
  /\ pc[t] = "idle"
  /\ total_allocated + allocated <= MaxTotal
  /\ IF thread_id = 0
     THEN /\ last' = Step("add", "unresolved", "no")
          /\ IF dead_samples /\ tryLock = 0
             THEN SetContainers(scavenge(Containers)) /\ dead_samples' = FALSE
             ELSE UNCHANGED << samples, list, free_list, items, pq_total,
                               fault, dead_samples >>
          /\ UNCHANGED << tryLock, pc, arg >>
     ELSE /\ UNCHANGED << samples, list, free_list, items, pq_total,
                          fault, dead_samples >>
          /\ IF tryLock # 0
             THEN /\ last' = Step("add", "contended", "no")
                  /\ UNCHANGED << tryLock, pc, arg >>
             ELSE /\ tryLock' = 1
                  /\ pc' = [pc EXCEPT ![t] = "locked"]
                  /\ arg' = [arg EXCEPT ![t] = [obj |-> obj, allocated |-> allocated]]
                  /\ last' = Step("add", "acquired", "no")
  /\ UNCHANGED << size, total_allocated, last_sweep >>

\* add() entry that goes on without looking at has_lock()
add_enter_ignores_lock(t, obj, allocated, thread_id) ==
  /\ pc[t] = "idle"
  /\ total_allocated + allocated <= MaxTotal
  /\ IF thread_id = 0
     THEN /\ last' = Step("add", "unresolved", "no")
          /\ UNCHANGED << tryLock, pc, arg >>
     ELSE /\ tryLock' = 1
          /\ pc' = [pc EXCEPT ![t] = "locked"]
          /\ arg' = [arg EXCEPT ![t] = [obj |-> obj, allocated |-> allocated]]
          /\ last' = Step("add", "acquired", "no")
  /\ UNCHANGED << size, samples, list, free_list, items, pq_total,
                  total_allocated, dead_samples, last_sweep, fault >>

\* ObjectSampler::add, lines 55-81: identity check and JfrTryLock acquisition
add_enter(t, obj, allocated, thread_id) ==
  /\ pc[t] = "idle"
  /\ total_allocated + allocated <= MaxTotal
  /\ IF thread_id = 0
     THEN /\ last' = Step("add", "unresolved", "no")
          /\ UNCHANGED << tryLock, pc, arg >>
     ELSE IF tryLock # 0
     THEN /\ last' = Step("add", "contended", "no")
          /\ UNCHANGED << tryLock, pc, arg >>
     ELSE /\ tryLock' = 1
          /\ pc' = [pc EXCEPT ![t] = "locked"]
          /\ arg' = [arg EXCEPT ![t] = [obj |-> obj, allocated |-> allocated]]
          /\ last' = Step("add", "acquired", "no")
  /\ UNCHANGED << size, samples, list, free_list, items, pq_total,
                  total_allocated, dead_samples, last_sweep, fault >>

\* lines 83-118 with the try-lock left held by the return of line 96
add_locked_keeps_guard_on_reject(t) ==
  /\ pc[t] = "locked"
  /\ \E r \in add_locked_results(Containers, size, dead_samples, total_allocated,
                                 arg[t].obj, arg[t].allocated) :
       /\ SetContainers(r.st)
       /\ total_allocated' = r.total_allocated
       /\ dead_samples' = r.dead_samples
       /\ last' = Step("add", r.outcome, r.sweep)
       /\ tryLock' = IF r.outcome = "rejected" THEN 1 ELSE 0
  /\ pc' = [pc EXCEPT ![t] = "idle"]
  /\ arg' = [arg EXCEPT ![t] = NoArg]
  /\ UNCHANGED << size, last_sweep >>

\* ObjectSampler::add, lines 83-118, and the release of the try-lock on return
add_locked(t) ==
  /\ pc[t] = "locked"
  /\ \E r \in add_locked_results(Containers, size, dead_samples, total_allocated,
                                 arg[t].obj, arg[t].allocated) :
       /\ SetContainers(r.st)
       /\ total_allocated' = r.total_allocated
       /\ dead_samples' = r.dead_samples
       /\ last' = Step("add", r.outcome, r.sweep)
  /\ tryLock' = 0
  /\ pc' = [pc EXCEPT ![t] = "idle"]
  /\ arg' = [arg EXCEPT ![t] = NoArg]
  /\ UNCHANGED << size, last_sweep >>

\* oops_do that removes the samples it finds dead at once
oops_do_removes(alive, now) ==
  /\ AllIdle
  /\ SetContainers(scavenge([Containers EXCEPT
                               !.samples = oops_mark(samples, list, alive)]))
  /\ dead_samples' = (dead_samples \/ oops_marked(samples, list, alive))
  /\ last_sweep' = now
  /\ last' = Step("oops_do",
                  IF oops_marked(samples, list, alive) THEN "marked" ELSE "none",
                  "no")
  /\ UNCHANGED << size, total_allocated, tryLock, pc, arg >>

\* ObjectSampler::oops_do, called by the collector while no add() runs
oops_do(alive, now) ==
  /\ AllIdle
  /\ samples' = oops_mark(samples, list, alive)
  /\ dead_samples' = (dead_samples \/ oops_marked(samples, list, alive))
  /\ last_sweep' = now
  /\ last' = Step("oops_do",
                  IF oops_marked(samples, list, alive) THEN "marked" ELSE "none",
                  "no")
  /\ UNCHANGED << size, list, free_list, items, pq_total, total_allocated,
                  tryLock, fault, pc, arg >>

\* scavenge without line 173: _dead_samples is left set
scavenge_call_keeps_flag ==
  /\ AllIdle
  /\ SetContainers(scavenge(Containers))
  /\ last' = Step("scavenge", "done", sweep_kind(Containers))
  /\ UNCHANGED << size, total_allocated, tryLock, last_sweep, pc, arg,
                  dead_samples >>

\* ObjectSampler::scavenge, called on its own while no add() runs
scavenge_call ==
  /\ AllIdle
  /\ SetContainers(scavenge(Containers))
  /\ dead_samples' = FALSE
  /\ last' = Step("scavenge", "done", sweep_kind(Containers))
  /\ UNCHANGED << size, total_allocated, tryLock, last_sweep, pc, arg >>

\* the objects of the samples oops_do asks is_alive about
Asked == {samples[list[i]].object : i \in {j \in 1 .. Len(list) : ~samples[list[j]].dead}}

Next ==
  \/ \E t \in Threads, allocated \in Sizes, thread_id \in {0, 1} :
       add_enter(t, FreshObject, allocated, thread_id * t)
  \/ \E t \in Threads : add_locked(t)
  \/ \E alive \in SUBSET Asked, now \in last_sweep .. MaxClock : oops_do(alive, now)
  \/ scavenge_call

Spec == Init /\ [][Next]_vars

\* A thread inside add() keeps running: lines 83-118 hold no wait and no loop
\* other than the bounded walk of scavenge.
FairSpec == Spec /\ \A t \in Threads : WF_vars(add_locked(t))

\* ------------------------------------------------------------- properties
Locked == {t \in Threads : pc[t] = "locked"}

RECURSIVE SpanSum(_, _)
SpanSum(smp, S) ==
  IF S = {} THEN 0
  ELSE LET s == CHOOSE x \in S : TRUE IN smp[s].span + SpanSum(smp, S \ {s})

ListSet(seq) == {seq[i] : i \in 1 .. Len(seq)}

Data == << samples, list, free_list, items, pq_total, total_allocated,
           dead_samples, last_sweep, fault >>

\* a step in which a caller of add() found the guard held
EntryWhileHeld ==
  /\ tryLock = 1
  /\ last'.op = "add"
  /\ last'.outcome \in {"contended", "acquired"}

\* C1: at most one thread is past the try-lock of add() at any time, the
\* guard is held exactly while one is, and a caller that finds the guard
\* held returns in that same step, dropped, leaving _total_allocated, the
\* queue, the list and _dead_samples as they were.
C1_GuardExcludes ==
  /\ [](Cardinality(Locked) <= 1 /\ (tryLock = 1 <=> Locked # {}))
  /\ [][EntryWhileHeld =>
          /\ last'.outcome = "contended"
          /\ UNCHANGED << Data, tryLock, pc, arg >>]_vars

C1_Witness ==
  /\ last = Step("add", "contended", "no")
  /\ Cardinality(Locked) = 1
  /\ Len(list) >= 1

\* C2: the priority queue never holds more than _size samples, and it holds
\* as many samples as there are slots off the free list, which is the length
\* of the in-use list.
C2_CountMatchesPool ==
  /\ Cardinality(items) <= size
  /\ Cardinality(items) = Cardinality((1 .. size) \ free_list)
  /\ Cardinality(items) = Len(list)

C2_Witness ==
  /\ last = Step("add", "fresh", "folded")
  /\ Cardinality(items) = size
  /\ size = 3

\* C3: _priority_queue->total() is the sum of span() over the samples the
\* queue contains.
C3_TotalIsSpanSum == pq_total = SpanSum(samples, items)

C3_Witness ==
  /\ last.op = "scavenge"
  /\ last.sweep = "folded"
  /\ \E s \in items : samples[s].span > samples[s].allocated
  /\ pq_total = SpanSum(samples, items)

\* the part of add() past the try-lock returns in this step, for thread t
AddReturns(t) == pc[t] = "locked" /\ pc'[t] = "idle"

\* A reference reading of lines 88-101, on the state add() starts from.
\* The queue count once a pending sweep has run:
RefCount ==
  IF dead_samples
  THEN Cardinality({s \in ListSet(list) : ~samples[s].dead})
  ELSE Cardinality(items)

RefFull == RefCount = size

RefCandidateSpan(t) == (total_allocated + arg[t].allocated) - pq_total

RefMin == {m \in items : \A o \in items : samples[m].span <= samples[o].span}

RefRejects(t) ==
  RefFull /\ \E m \in RefMin : samples[m].span > RefCandidateSpan(t)

RefSample(t) ==
  [span |-> arg[t].allocated, allocated |-> arg[t].allocated,
   object |-> arg[t].obj, dead |-> FALSE]

RefSurvivors == SelectSeq(list, LAMBDA s : ~samples[s].dead)

\* C4: an add() past the try-lock rejects the event exactly when the queue
\* is full and the minimum span is greater than the candidate span; a full
\* queue otherwise loses exactly one minimum-span sample, whose slot is
\* reused at last(); a queue below capacity takes a free slot and keeps
\* every sample that was not dead.
C4_AdmissionRule ==
  [][\A t \in Threads : AddReturns(t) =>
       /\ RefRejects(t) <=> (samples' = samples /\ list' = list /\ items' = items)
       /\ (RefFull /\ ~RefRejects(t)) =>
            \E v \in RefMin :
              /\ list' = << v >> \o Without(list, v)
              /\ items' = items
              /\ samples' = [samples EXCEPT ![v] = RefSample(t)]
              /\ pq_total' = pq_total - samples[v].span + arg[t].allocated
       /\ ~RefFull =>
            \E s \in Slots \ ListSet(RefSurvivors) :
              /\ list' = << s >> \o RefSurvivors
              /\ items' = ListSet(RefSurvivors) \cup {s}
              /\ samples'[s] = RefSample(t)]_vars

C4_Witness ==
  /\ last = Step("add", "evicted", "no")
  /\ size = 3
  /\ total_allocated = 5
  /\ pq_total = 4
  /\ \E s \in items : samples[s].span = 2

\* C5: an add() rejected by the weight comparison leaves the samples, the
\* list, the free list, the queue and its total as they were, and
\* _total_allocated is greater by exactly `allocated`.
C5_RejectFrame ==
  [][\A t \in Threads :
       (AddReturns(t) /\ (RefRejects(t) \/ last'.outcome = "rejected")) =>
         /\ UNCHANGED << samples, list, free_list, items, pq_total >>
         /\ total_allocated' = total_allocated + arg[t].allocated]_vars

C5_Witness ==
  /\ last = Step("add", "rejected", "no")
  /\ size = 2
  /\ total_allocated = 5
  /\ pq_total = 4
  /\ \A s \in items : samples[s].span = 2

Refers(smp, seq, obj) == {s \in ListSet(seq) : smp[s].object = obj}

\* C6: when add() returns, either the event was dropped and no sample in the
\* list refers to its object, or exactly one sample refers to it, and that
\* sample is last(), is in the queue, is not dead, and has span and
\* allocated equal to the `allocated` argument.
C6_RepresentedOrDropped ==
  [][/\ \A t \in Threads : AddReturns(t) =>
          IF last'.outcome = "rejected"
          THEN Refers(samples', list', arg[t].obj) = {}
          ELSE /\ list' # << >>
               /\ Refers(samples', list', arg[t].obj) = {Head(list')}
               /\ Head(list') \in items'
               /\ samples'[Head(list')] = RefSample(t)
     /\ (last'.op = "add" /\ last'.outcome \in {"unresolved", "contended"}) =>
          Refers(samples', list', FreshObject) = {}]_vars

C6_Witness ==
  /\ last = Step("add", "evicted", "no")
  /\ Len(list) = 2
  /\ samples[Head(list)].span = 1
  /\ samples[Head(list)].allocated = 1
  /\ total_allocated - pq_total > 1

\* C7: an add() whose thread id is 0 changes nothing: _total_allocated, the
\* samples, the list, the queue, _dead_samples and the try-lock are as they
\* were, also while a sweep is pending.
C7_UnresolvedFrame ==
  [][(last'.op = "add" /\ last'.outcome = "unresolved") =>
       UNCHANGED << Data, size, tryLock, pc, arg >>]_vars

C7_Witness ==
  /\ last = Step("add", "unresolved", "no")
  /\ dead_samples
  /\ \E s \in ListSet(list) : samples[s].dead
  /\ tryLock = 0

\* a step that is a call of scavenge() on its own
ScavengeStep == last'.op = "scavenge"

\* the spans of the dead samples that follow position i - 1 without a gap,
\* along next()
RECURSIVE DeadRunAfter(_, _, _)
DeadRunAfter(smp, seq, i) ==
  IF i > Len(seq) \/ ~smp[seq[i]].dead THEN 0
  ELSE smp[seq[i]].span + DeadRunAfter(smp, seq, i + 1)

\* the spans of the dead samples that precede position i + 1 without a gap,
\* along prev()
RECURSIVE DeadRunBefore(_, _, _)
DeadRunBefore(smp, seq, i) ==
  IF i < 1 \/ ~smp[seq[i]].dead THEN 0
  ELSE smp[seq[i]].span + DeadRunBefore(smp, seq, i - 1)

DeadCount == Cardinality({s \in ListSet(list) : samples[s].dead})

\* C8 as stated: scavenge adds a dead sample's span to the surviving
\* neighbour admitted before it, the one further from last().
C8_SpanToOlderNeighbour ==
  [][ScavengeStep =>
       \A i \in 1 .. Len(list) :
         ~samples[list[i]].dead =>
           samples'[list[i]].span =
             samples[list[i]].span + DeadRunBefore(samples, list, i - 1)]_vars

\* C8 (amended): scavenge adds a dead sample's span to the surviving
\* neighbour admitted after it, the one nearer to last() that prev() leads
\* to; a surviving sample gains the spans of the dead samples that follow it
\* directly along next() and nothing else, and the queue count drops by the
\* number of dead samples.
C8_SpanToNewerNeighbour ==
  [][ScavengeStep =>
       /\ \A i \in 1 .. Len(list) :
            ~samples[list[i]].dead =>
              samples'[list[i]].span =
                samples[list[i]].span + DeadRunAfter(samples, list, i + 1)
       /\ Cardinality(items') = Cardinality(items) - DeadCount]_vars

C8_Witness ==
  /\ last = Step("scavenge", "done", "folded")
  /\ size = 3
  /\ total_allocated = 5
  /\ Len(list) = 2
  /\ Cardinality(items) = 2
  /\ samples[list[1]].allocated = 1 /\ samples[list[1]].span = 3
  /\ samples[list[2]].allocated = 1 /\ samples[list[2]].span = 1

\* C9 as stated: when every dead sample has an older neighbour that is not
\* dead, scavenge leaves the queue total as it was.
C9_TotalKeptWithOlderNeighbour ==
  [][(/\ ScavengeStep
      /\ \A d \in ListSet(list) :
           samples[d].dead =>
             /\ next_of(list, d) # NULL
             /\ ~samples[next_of(list, d)].dead) =>
       pq_total' = pq_total]_vars

\* C9 (amended): when every dead sample has a newer neighbour (prev() is not
\* NULL, so the sample at last() is not dead), scavenge leaves the queue
\* total as it was, the spans in the list add up to what they did, and a
\* surviving sample's span grows by exactly the spans of the dead samples
\* folded onto it.
C9_TotalKeptWithNewerNeighbour ==
  [][(/\ ScavengeStep
      /\ \A d \in ListSet(list) : samples[d].dead => prev_of(list, d) # NULL) =>
       /\ pq_total' = pq_total
       /\ SpanSum(samples', ListSet(list')) = SpanSum(samples, ListSet(list))
       /\ \A d \in ListSet(list) :
            (/\ samples[d].dead
             /\ ~samples[prev_of(list, d)].dead
             /\ (next_of(list, d) # NULL => ~samples[next_of(list, d)].dead)) =>
              samples'[prev_of(list, d)].span =
                samples[prev_of(list, d)].span + samples[d].span]_vars

C9_Witness ==
  /\ last = Step("scavenge", "done", "folded")
  /\ size = 3
  /\ Len(list) = 2
  /\ samples[list[1]].allocated = 2 /\ samples[list[1]].span = 3
  /\ samples[list[2]].allocated = 1 /\ samples[list[2]].span = 1
  /\ pq_total = 4

\* C10: oops_do removes nothing: the list, the free list, the queue and its
\* total, every span and _total_allocated are as they were; the only change
\* to a sample is dead set on a listed sample that was not dead;
\* _dead_samples is set when one was marked and otherwise kept; _last_sweep
\* is set to the time of the call.
C10_OopsDoFrame ==
  [][last'.op = "oops_do" =>
       /\ UNCHANGED << size, list, free_list, items, pq_total, total_allocated,
                       fault, tryLock, pc, arg >>
       /\ \A s \in Slots :
            \/ samples'[s] = samples[s]
            \/ /\ s \in ListSet(list)
               /\ ~samples[s].dead
               /\ samples'[s] = [samples[s] EXCEPT !.dead = TRUE]
       /\ dead_samples' = (dead_samples \/ samples' # samples)
       /\ (last'.outcome = "marked") = (samples' # samples)
       /\ last_sweep' >= last_sweep]_vars

C10_Witness ==
  /\ last = Step("oops_do", "marked", "no")
  /\ size = 3
  /\ Cardinality(items) = 3
  /\ Len(list) = 3
  /\ samples[list[2]].dead /\ list[2] \in items
  /\ ~samples[list[1]].dead /\ ~samples[list[3]].dead
  /\ dead_samples
  /\ last_sweep = 1

\* C11: a scavenge() that follows a scavenge() directly changes nothing:
\* samples, list, free list, queue, total and _dead_samples stay as the
\* first call left them; and on every reachable state scavenging twice
\* gives what scavenging once gives.
C11_ScavengeIdempotent ==
  /\ [](scavenge(scavenge(Containers)) = scavenge(Containers))
  /\ [][(last.op = "scavenge" /\ ScavengeStep) =>
          /\ UNCHANGED << Data, size, tryLock, pc, arg >>
          /\ last'.sweep = "none"]_vars

C11_Witness ==
  /\ last = Step("scavenge", "done", "none")
  /\ size = 3
  /\ total_allocated = 3
  /\ Len(list) = 1
  /\ samples[Head(list)].span = 3
  /\ free_list = Slots \ {Head(list)}
  /\ ~dead_samples

\* the containers as line 88 of the add() of t finds them
AfterSweep == IF dead_samples THEN scavenge(Containers) ELSE Containers

\* C12: SampleList::get() never finds the free list empty: whenever an
\* add() past the try-lock is about to take the fresh-slot branch a free
\* slot exists, no exhaustion has happened, and a queue holding _size
\* samples goes with a list holding _size samples.
C12_PoolNeverExhausted ==
  /\ "pool_exhausted" \notin fault
  /\ Cardinality(items) = size => Len(list) = size
  /\ \A t \in Threads :
       (pc[t] = "locked" /\ ~is_full(AfterSweep, size)) =>
         AfterSweep.free_list # {}

C12_Witness ==
  /\ last.op = "add"
  /\ last.outcome = "fresh"
  /\ last.sweep = "lost"
  /\ size = 3
  /\ free_list = {}
  /\ Len(list) = 3
  /\ fault = {}

\* C13: SamplePriorityQueue::remove is never called with a sample the queue
\* does not contain, no slot on the free list is in the queue, and a slot
\* reaches the free list only from a dead sample, and out of the queue.
C13_RemoveOnlyContained ==
  /\ []("remove_absent" \notin fault /\ free_list \cap items = {})
  /\ [][\A s \in free_list' \ free_list :
          /\ samples[s].dead
          /\ s \in items
          /\ s \notin items'
          /\ s \notin ListSet(list')]_vars

C13_Witness ==
  /\ last = Step("scavenge", "done", "lost")
  /\ size = 3
  /\ total_allocated = 3
  /\ Len(list) = 1
  /\ samples[Head(list)].allocated = 1
  /\ samples[Head(list)].span = 2
  /\ items = {Head(list)}
  /\ fault = {}

DeadIn(smp, seq) == {s \in ListSet(seq) : smp[s].dead}

\* C14: an add() past the try-lock runs the pending sweep exactly when
\* _dead_samples is set, and before it pops or reuses anything: a call that
\* evicts started with no dead sample in the list, every sample that was
\* dead has left the queue or had its slot released and taken afresh, and
\* when the call returns no listed or queued sample is dead and
\* _dead_samples is false.
C14_SweepBeforeAdmission ==
  [][\A t \in Threads : AddReturns(t) =>
       /\ (last'.sweep # "no") = dead_samples
       /\ last'.outcome \in {"evicted", "rejected"} => DeadIn(samples, list) = {}
       /\ \A d \in DeadIn(samples, list) :
            d \in free_list' \/ (d = Head(list') /\ samples'[d] = RefSample(t))
       /\ DeadIn(samples', list') = {}
       /\ \A s \in items' : ~samples'[s].dead
       /\ ~dead_samples']_vars

C14_Witness ==
  /\ last = Step("add", "fresh", "lost")
  /\ size = 2
  /\ Len(list) = 2
  /\ Cardinality(items) = 2
  /\ DeadIn(samples, list) = {}
  /\ ~dead_samples
  /\ tryLock = 0

\* C15: when scavenge() returns, the list holds the samples that were not
\* dead in their old order, the queue holds exactly those, every slot of a
\* dead sample is on the free list, the queue count is down by the number
\* of dead samples, and _dead_samples is false.
C15_ScavengeLeavesSurvivors ==
  [][ScavengeStep =>
       /\ list' = RefSurvivors
       /\ items' = ListSet(RefSurvivors)
       /\ DeadIn(samples, list) \subseteq free_list'
       /\ free_list' = free_list \cup DeadIn(samples, list)
       /\ Cardinality(items') = Cardinality(items) - DeadCount
       /\ ~dead_samples']_vars

C15_Witness ==
  /\ last = Step("scavenge", "done", "folded")
  /\ size = 3
  /\ total_allocated = 4
  /\ Len(list) = 1
  /\ items = {Head(list)}
  /\ Cardinality(free_list) = 2
  /\ samples[Head(list)].span = 4
  /\ ~dead_samples

\* C16: _total_allocated never decreases; it grows by exactly `allocated`
\* in every add() that got past the try-lock, admitted or rejected, and is
\* changed by nothing else: not by a call dropped for its thread id or for
\* contention, not by oops_do or scavenge.
C16_TotalAllocatedSum ==
  /\ [](last.op = "init" => total_allocated = 0)
  /\ [][/\ total_allocated' >= total_allocated
        /\ \A t \in Threads :
             AddReturns(t) => total_allocated' = total_allocated + arg[t].allocated
        /\ (\A t \in Threads : ~AddReturns(t)) => total_allocated' = total_allocated]_vars

C16_Witness ==
  /\ last = Step("add", "rejected", "no")
  /\ size = 1
  /\ total_allocated = 5
  /\ pq_total = 4
  /\ Len(list) = 1

\* C17: every return of an add() that took the try-lock releases it, the
\* quick reject of line 96 included, so the try-lock is free whenever no
\* thread is inside add(); a caller with a resolved thread id that finds
\* the try-lock free acquires it and is never dropped for contention; and
\* every add() that is past the try-lock returns.
C17_GuardReleasedAndReturns ==
  /\ [](Locked = {} => tryLock = 0)
  /\ [][/\ \A t \in Threads : AddReturns(t) => tryLock' = 0
        /\ (tryLock = 0 /\ last'.op = "add") => last'.outcome # "contended"
        /\ (tryLock = 0 /\ last'.op = "add" /\ last'.outcome = "acquired") =>
             /\ tryLock' = 1
             /\ \E t \in Threads : pc[t] = "idle" /\ pc'[t] = "locked"]_vars
  /\ \A t \in Threads : (pc[t] = "locked") ~> (pc[t] = "idle")

C17_Witness ==
  /\ last = Step("add", "rejected", "no")
  /\ tryLock = 0
  /\ Locked = {}
  /\ size = 2
  /\ Len(list) = 2
  /\ total_allocated = 5
  /\ pq_total = 4

\* C18: while no add() is inside its locked section, _dead_samples is
\* true exactly when a listed sample is dead; a dead sample stays listed,
\* queued and unchanged until a step that sweeps, so it never comes back to
\* life and oops_do, which asks is_alive only about samples that are not
\* dead, never asks about it again.
C18_FlagIffDeadListed ==
  /\ [](/\ dead_samples = (DeadIn(samples, list) # {})
        /\ DeadIn(samples, list) \subseteq items
        /\ \A d \in DeadIn(samples, list) : samples[d].object \notin Asked)
  /\ [][\A d \in DeadIn(samples, list) :
          \/ /\ d \in ListSet(list')
             /\ d \in items'
             /\ samples'[d] = samples[d]
          \/ /\ last'.sweep \in {"folded", "lost"}
             /\ last'.op \in {"add", "scavenge"}
             /\ DeadIn(samples', list') = {}]_vars

C18_Witness ==
  /\ last = Step("oops_do", "none", "no")
  /\ dead_samples
  /\ DeadCount = 1
  /\ Len(list) = 2
  /\ samples[list[2]].dead
  /\ size = 2

Gap == total_allocated - pq_total

\* C19: the queue total never exceeds _total_allocated, before and after
\* a pending sweep, so the candidate span of line 89 does not underflow
\* and is at least `allocated`; the gap between the two never shrinks: it
\* grows by `allocated` on a quick reject, by the evicted span on an
\* eviction, by the spans of the dead samples at last() that have no
\* prev() when a sweep removes them, and by nothing otherwise.
C19_GapNeverShrinks ==
  /\ [](/\ pq_total <= total_allocated
        /\ AfterSweep.pq_total <= total_allocated
        /\ \A t \in Locked :
             candidate_span(new_total(total_allocated, arg[t].allocated), AfterSweep)
               >= arg[t].allocated)
  /\ [][/\ Gap' >= Gap
        /\ \A t \in Threads : AddReturns(t) =>
             Gap' = Gap + (CASE last'.outcome = "rejected" -> arg[t].allocated
                             [] last'.outcome = "evicted" ->
                                  samples[CHOOSE m \in RefMin : TRUE].span
                             [] OTHER -> DeadRunAfter(samples, list, 1))
        /\ ScavengeStep => Gap' = Gap + DeadRunAfter(samples, list, 1)
        /\ (~ScavengeStep /\ \A t \in Threads : ~AddReturns(t)) => Gap' = Gap]_vars

C19_Witness ==
  /\ last = Step("add", "evicted", "no")
  /\ size = 1
  /\ total_allocated = 3
  /\ pq_total = 2
  /\ samples[Head(list)].allocated = 2

\* C20: an add() that is past the try-lock and finds _dead_samples set is
\* always admitted through a fresh slot: it neither rejects nor evicts,
\* every sample that was not dead stays queued, and the queue count after
\* the call is the count before, less the dead samples, plus one.
C20_PendingSweepAdmits ==
  [][\A t \in Threads : (AddReturns(t) /\ dead_samples) =>
       /\ last'.outcome = "fresh"
       /\ DeadCount >= 1
       /\ Cardinality(items) - DeadCount < size
       /\ Cardinality(items') = Cardinality(items) - DeadCount + 1
       /\ ListSet(RefSurvivors) \subseteq items'
       /\ list' = << Head(list') >> \o RefSurvivors
       /\ samples'[Head(list')] = RefSample(t)]_vars

C20_Witness ==
  /\ last = Step("add", "fresh", "folded")
  /\ size = 2
  /\ Len(list) = 2
  /\ Cardinality(items) = 2
  /\ samples[list[2]].span > samples[list[2]].allocated
  /\ ~dead_samples

====
